---------------------------- MODULE Spec2Model ----------------------------
(***************************************************************************)
(* A model of dfa-utils: the relation Table (src/src/table.rs), the        *)
(* refinable Partition (src/src/partition.rs) and the two DFA operations   *)
(* prune_unreachable and minimize (src/src/lib.rs).                        *)
(*                                                                         *)
(* States and labels are small naturals.  A DFA value is a record          *)
(*   [initial_state, final_states, transitions]                            *)
(* whose transitions are the Table's ordered sequence of triples           *)
(* <<source, label, destination>>.  Indices and set ids are 0-based as in  *)
(* the Rust code; TLA+ sequences are 1-based, so position i of a Vec is    *)
(* element i + 1 of the sequence that models it.                           *)
(*                                                                         *)
(* The iteration order of a HashSet / HashMap is not determined by its     *)
(* contents (std's RandomState).  Every place where the code iterates one  *)
(* takes the order as an explicit argument, and the actions choose it      *)
(* nondeterministically among all orders.                                  *)
(***************************************************************************)
EXTENDS Naturals, Sequences, FiniteSets

VARIABLES
  \* the host's values: the DFA it built and the results of its calls
  input, pruned, minified, reminified, repruned, direct,
  \* a Partition driven call by call: the struct, the elements marked since
  \* the last split, and the last call made
  part, session, op,
  \* one run of minimize on `input`, loop iteration by loop iteration: a
  \* record of the position in the code (pc), the two partitions (blocks,
  \* cords), the two cursors (b, c) and the value returned (result)
  run

hostVars == <<input, pruned, minified, reminified, repruned, direct>>
partVars == <<part, session, op>>
runVars == <<run>>
vars == <<hostVars, partVars, runVars>>

----------------------------------------------------------------------------
(* Bounds of the model.                                                    *)

\* longest transition sequence of an input DFA
MaxTrans == 2
\* longest word on which two automata are compared
MaxWord == 3

\* largest universe of a Partition driven call by call
MaxElems == 4

\* the states and the labels input DFAs are built from
States == {0, 1, 2}
Labels == {0, 1}
\* State names are opaque to the code (equality and hashing only) and every
\* iteration order is considered, so inputs that differ by a renaming of
\* the states behave alike: the initial state of an input is named 0.
InitialStates == {0}

----------------------------------------------------------------------------
(* Generic helpers.                                                        *)

Range(s) == {s[i] : i \in DOMAIN s}

\* position i (0-based) of a Vec
At(s, i) == s[i + 1]

\* all orders in which a hash container holding the set S can be iterated
Orders(S) ==
  {s \in [1 .. Cardinality(S) -> S] : \A i, j \in 1 .. Cardinality(S) : (s[i] = s[j]) => (i = j)}

RECURSIVE SeqsUpTo(_, _)
SeqsUpTo(S, n) ==
  IF n = 0 THEN {<<>>}
  ELSE LET shorter == SeqsUpTo(S, n - 1)
       IN  shorter \cup {Append(s, x) : s \in {t \in shorter : Len(t) = n - 1}, x \in S}

----------------------------------------------------------------------------
(* table.rs                                                                *)

\* the key (coordinate k) and the value (the other two coordinates, in order)
\* that by_a (k = 1), by_b (k = 2) and by_c (k = 3) hand to group_by_to
KeyOf(t, k) == t[k]
ValueOf(t, k) == IF k = 1 THEN <<t[2], t[3]>> ELSE IF k = 2 THEN <<t[1], t[3]>> ELSE <<t[1], t[2]>>

\* group_by_to: the map key -> values of the entries with that key, in the
\* entries' order; a key with no entry is not in the map
group_by_to(tuples, k) ==
  [key \in {KeyOf(tuples[i], k) : i \in DOMAIN tuples} |->
     LET Hit(t) == KeyOf(t, k) = key
         hits == SelectSeq(tuples, Hit)
     IN  [n \in DOMAIN hits |-> ValueOf(hits[n], k)]]

by_a(tuples) == group_by_to(tuples, 1)
by_b(tuples) == group_by_to(tuples, 2)
by_c(tuples) == group_by_to(tuples, 3)

\* HashMap::get: the entry's list, or nothing (the empty list) for a missing key
Get(map, key) == IF key \in DOMAIN map THEN map[key] ELSE <<>>

----------------------------------------------------------------------------
(* partition.rs                                                            *)
(*                                                                         *)
(* A Partition is a record of the struct's fields plus `panic`: "none", or *)
(* the fatal failure that ended the computation ("no entry": indexing a    *)
(* HashMap with a missing key; "already marked": the assertion of mark;    *)
(* "out of bounds": indexing a Vec past its end; "overflow": a usize       *)
(* subtraction below zero).  Once a partition has panicked every operation *)
(* leaves it as it is: the computation that owns it is over.               *)

\* Partition::new.  `locations` is collected into a HashMap in the elements'
\* order, so for an element that occurs twice the later position wins.
PartitionNew(elements) ==
  [ elements  |-> elements,
    locations |-> [e \in Range(elements) |->
                     (CHOOSE i \in DOMAIN elements :
                        /\ elements[i] = e
                        /\ \A j \in DOMAIN elements : (elements[j] = e) => (j <= i)) - 1],
    owners    |-> [e \in Range(elements) |-> 0],
    spans     |-> << [start |-> 0, end |-> Len(elements)] >>,
    marked    |-> << 0 >>,
    touched   |-> << >>,
    panic     |-> "none" ]

PLen(p) == Len(p.spans)

\* owned: the slice of elements in the set's span
Owned(p, set_id) ==
  LET span == At(p.spans, set_id)
  IN  [n \in 1 .. (span.end - span.start) |-> At(p.elements, span.start + n - 1)]

\* the state of the partition after panicking with failure `why`
Panicked(p, why) == [p EXCEPT !.panic = why]

\* Mutant of Mark: the position of the element swapped away is not recorded
\* (`locations.insert(target, i)` left out).
MarkNoTargetLocation(p, item) ==
  IF p.panic # "none" THEN p
  ELSE IF item \notin DOMAIN p.owners THEN Panicked(p, "no entry")
  ELSE
    LET owner == p.owners[item]
        i     == p.locations[item]
        j     == At(p.spans, owner).start + At(p.marked, owner)
    IN  IF i < j THEN Panicked(p, "already marked")
        ELSE
          LET target == At(p.elements, j)
              swapped == IF i > j
                         THEN [p EXCEPT !.elements = [p.elements EXCEPT ![i + 1] = target, ![j + 1] = item],
                                        !.locations = [p.locations EXCEPT ![item] = j]]
                         ELSE p
              pushed == IF At(p.marked, owner) = 0
                        THEN [swapped EXCEPT !.touched = Append(p.touched, owner)]
                        ELSE swapped
          IN  [pushed EXCEPT !.marked[owner + 1] = @ + 1]

\* Mutant of Mark: the element is swapped to the start of the span, not to the
\* end of the marked prefix (`+ self.marked[owner]` left out of j).
MarkAtStart(p, item) ==
  IF p.panic # "none" THEN p
  ELSE IF item \notin DOMAIN p.owners THEN Panicked(p, "no entry")
  ELSE
    LET owner == p.owners[item]
        i     == p.locations[item]
        j     == At(p.spans, owner).start
    IN  IF i < j THEN Panicked(p, "already marked")
        ELSE
          LET target == At(p.elements, j)
              swapped == IF i > j
                         THEN [p EXCEPT !.elements = [p.elements EXCEPT ![i + 1] = target, ![j + 1] = item],
                                        !.locations = [p.locations EXCEPT ![item] = j, ![target] = i]]
                         ELSE p
              pushed == IF At(p.marked, owner) = 0
                        THEN [swapped EXCEPT !.touched = Append(p.touched, owner)]
                        ELSE swapped
          IN  [pushed EXCEPT !.marked[owner + 1] = @ + 1]

\* mark
Mark(p, item) ==
  IF p.panic # "none" THEN p
  ELSE IF item \notin DOMAIN p.owners THEN Panicked(p, "no entry")
  ELSE
    LET owner == p.owners[item]
        i     == p.locations[item]
        j     == At(p.spans, owner).start + At(p.marked, owner)
    IN  IF i < j THEN Panicked(p, "already marked")
        ELSE
          LET target == At(p.elements, j)
              swapped == IF i > j
                         THEN [p EXCEPT !.elements = [p.elements EXCEPT ![i + 1] = target, ![j + 1] = item],
                                        !.locations = [p.locations EXCEPT ![item] = j, ![target] = i]]
                         ELSE p
              pushed == IF At(p.marked, owner) = 0
                        THEN [swapped EXCEPT !.touched = Append(p.touched, owner)]
                        ELSE swapped
          IN  [pushed EXCEPT !.marked[owner + 1] = @ + 1]

\* Mutant of SplitOne: the span of the set that keeps its id is not shrunk
\* (`self.spans[s] = ...` left out).
SplitOneKeepSpan(p, s) ==
  LET start == At(p.spans, s).start
      end   == At(p.spans, s).end
      mid   == start + At(p.marked, s)
      cleared == [p EXCEPT !.marked[s + 1] = 0]
  IN  IF mid = end THEN cleared
      ELSE IF mid > end THEN Panicked(cleared, "overflow")
      ELSE
        LET s1 == Len(p.spans)
            newspan == IF mid - start >= end - mid
                       THEN [start |-> mid, end |-> end]
                       ELSE [start |-> start, end |-> mid]
            moved == {At(p.elements, i) : i \in newspan.start .. (newspan.end - 1)}
        IN  [cleared EXCEPT !.marked = Append(@, 0),
                            !.spans = Append(@, newspan),
                            !.owners = [e \in DOMAIN @ |-> IF e \in moved THEN s1 ELSE @[e]]]

\* Mutant of SplitOne: the marked count is cleared only when the set is
\* divided (`self.marked[s] = 0` moved below the `continue`).
SplitOneNoClearOnNoop(p, s) ==
  LET start == At(p.spans, s).start
      end   == At(p.spans, s).end
      mid   == start + At(p.marked, s)
      cleared == [p EXCEPT !.marked[s + 1] = 0]
  IN  IF mid = end THEN p
      ELSE IF mid > end THEN Panicked(cleared, "overflow")
      ELSE
        LET s1 == Len(p.spans)
            newspan == IF mid - start >= end - mid
                       THEN [start |-> mid, end |-> end]
                       ELSE [start |-> start, end |-> mid]
            oldspan == IF mid - start >= end - mid
                       THEN [start |-> start, end |-> mid]
                       ELSE [start |-> mid, end |-> end]
            moved == {At(p.elements, i) : i \in newspan.start .. (newspan.end - 1)}
        IN  [cleared EXCEPT !.marked = Append(@, 0),
                            !.spans = Append([@ EXCEPT ![s + 1] = oldspan], newspan),
                            !.owners = [e \in DOMAIN @ |-> IF e \in moved THEN s1 ELSE @[e]]]

\* Mutant of SplitOne: on equal halves the marked half is the new set (`>`
\* for `>=`).
SplitOneTieMarked(p, s) ==
  LET start == At(p.spans, s).start
      end   == At(p.spans, s).end
      mid   == start + At(p.marked, s)
      cleared == [p EXCEPT !.marked[s + 1] = 0]
  IN  IF mid = end THEN cleared
      ELSE IF mid > end THEN Panicked(cleared, "overflow")
      ELSE
        LET s1 == Len(p.spans)
            newspan == IF mid - start > end - mid
                       THEN [start |-> mid, end |-> end]
                       ELSE [start |-> start, end |-> mid]
            oldspan == IF mid - start > end - mid
                       THEN [start |-> start, end |-> mid]
                       ELSE [start |-> mid, end |-> end]
            moved == {At(p.elements, i) : i \in newspan.start .. (newspan.end - 1)}
        IN  [cleared EXCEPT !.marked = Append(@, 0),
                            !.spans = Append([@ EXCEPT ![s + 1] = oldspan], newspan),
                            !.owners = [e \in DOMAIN @ |-> IF e \in moved THEN s1 ELSE @[e]]]

\* one iteration of split's loop, for the popped set s
SplitOne(p, s) ==
  LET start == At(p.spans, s).start
      end   == At(p.spans, s).end
      mid   == start + At(p.marked, s)
      cleared == [p EXCEPT !.marked[s + 1] = 0]
  IN  IF mid = end THEN cleared
      \* `end - mid` below zero: a panic in a build with overflow checks.  No
      \* specification of this module reaches it (marked[s] never exceeds the
      \* length of the span).
      ELSE IF mid > end THEN Panicked(cleared, "overflow")
      ELSE
        LET s1 == Len(p.spans)
            newspan == IF mid - start >= end - mid
                       THEN [start |-> mid, end |-> end]
                       ELSE [start |-> start, end |-> mid]
            oldspan == IF mid - start >= end - mid
                       THEN [start |-> start, end |-> mid]
                       ELSE [start |-> mid, end |-> end]
            moved == {At(p.elements, i) : i \in newspan.start .. (newspan.end - 1)}
        IN  [cleared EXCEPT !.marked = Append(@, 0),
                            !.spans = Append([@ EXCEPT ![s + 1] = oldspan], newspan),
                            !.owners = [e \in DOMAIN @ |-> IF e \in moved THEN s1 ELSE @[e]]]

\* Mutant of Split: only the last touched set is processed (`if let` for
\* `while let`).
SplitFirstOnly(p) ==
  IF p.panic # "none" \/ p.touched = <<>> THEN p
  ELSE LET s == p.touched[Len(p.touched)]
           popped == [p EXCEPT !.touched = SubSeq(@, 1, Len(@) - 1)]
       IN  SplitOne(popped, s)

\* split: pops the touched sets, last first
RECURSIVE Split(_)
Split(p) ==
  IF p.panic # "none" \/ p.touched = <<>> THEN p
  ELSE LET s == p.touched[Len(p.touched)]
           popped == [p EXCEPT !.touched = SubSeq(@, 1, Len(@) - 1)]
       IN  Split(SplitOne(popped, s))

\* mark every element of the sequence, in order
RECURSIVE MarkAll(_, _)
MarkAll(p, items) ==
  IF items = <<>> THEN p ELSE MarkAll(Mark(p, Head(items)), Tail(items))

----------------------------------------------------------------------------
(* lib.rs: DFA values and results                                          *)

DFA(initial_state, final_states, transitions) ==
  [initial_state |-> initial_state, final_states |-> final_states, transitions |-> transitions]

\* the placeholder carried by a result that holds no DFA
NoDFA == DFA(0, {}, <<>>)

\* a call that has not been made yet, Option::None, a panic, and a returned DFA
Pending == [kind |-> "pending", why |-> "none", dfa |-> NoDFA]
None == [kind |-> "none", why |-> "none", dfa |-> NoDFA]
Panic(why) == [kind |-> "panic", why |-> why, dfa |-> NoDFA]
Some(dfa) == [kind |-> "ok", why |-> "none", dfa |-> dfa]

----------------------------------------------------------------------------
(* lib.rs: prune_unreachable                                               *)

\* Mutant of Drain: a state popped a second time ends the loop (`break` for
\* `continue`) and leaves the rest of the queue unvisited.
RECURSIVE DrainBreak(_, _, _, _)
DrainBreak(queue, seen, flows, side) ==
  IF queue = <<>> THEN seen
  ELSE LET x == Head(queue)
       IN  IF x \in seen THEN seen
           ELSE LET neighbors == Get(flows, x)
                    pushed == [n \in DOMAIN neighbors |-> neighbors[n][side]]
                IN  DrainBreak(Tail(queue) \o pushed, seen \cup {x}, flows, side)

\* the two `while let Some(x) = queue.pop_front()` loops: `seen` is the
\* HashSet being filled, `flows` the index of neighbours, and coordinate
\* `side` of a neighbour entry is the state pushed on the queue
RECURSIVE Drain(_, _, _, _)
Drain(queue, seen, flows, side) ==
  IF queue = <<>> THEN seen
  ELSE LET x == Head(queue)
       IN  IF x \in seen THEN Drain(Tail(queue), seen, flows, side)
           ELSE LET neighbors == Get(flows, x)
                    pushed == [n \in DOMAIN neighbors |-> neighbors[n][side]]
                IN  Drain(Tail(queue) \o pushed, seen \cup {x}, flows, side)

\* `reachable`: breadth-first from the initial state over the outflows
Reachable(dfa) == Drain(<<dfa.initial_state>>, {}, by_a(dfa.transitions), 2)

\* Mutant of Relevant: the accepting states alone, the inflows never followed.
RelevantNoClosure(dfa, finalOrder) == Range(finalOrder)

\* `relevant`: breadth-first from the accepting states, pushed in the
\* HashSet's iteration order `finalOrder`, over the inflows
Relevant(dfa, finalOrder) == Drain(finalOrder, {}, by_c(dfa.transitions), 1)

\* Mutant of Allowed: the reachable states, not intersected with the relevant.
AllowedReachableOnly(dfa, finalOrder) == Reachable(dfa)

\* `allowed`
Allowed(dfa, finalOrder) == Reachable(dfa) \cap Relevant(dfa, finalOrder)

\* Mutant of KeepTransition: only the source is required to be allowed.
KeepTransitionSrcOnly(t, allowed) == t[1] \in allowed

\* the filter of the transitions kept by prune_unreachable
KeepTransition(t, allowed) == t[1] \in allowed /\ t[3] \in allowed

\* prune_unreachable
PruneUnreachable(dfa, finalOrder) ==
  LET allowed == Allowed(dfa, finalOrder)
      Keep(t) == KeepTransition(t, allowed)
  IN  IF dfa.initial_state \notin allowed THEN None
      ELSE Some(DFA(dfa.initial_state,
                    dfa.final_states \cap allowed,
                    SelectSeq(dfa.transitions, Keep)))

----------------------------------------------------------------------------
(* lib.rs: minimize                                                        *)

\* the states of the `blocks` universe: by_src.keys() chained with by_dst.keys()
Endpoints(transitions) == DOMAIN by_a(transitions) \cup DOMAIN by_c(transitions)

\* canonical: the element at the start of the set's span
Canonical(p, set_id) == At(p.elements, At(p.spans, set_id).start)

\* owner
Owner(p, item) == p.owners[item]

\* Mutant of SeedBlocks: the accepting states are not separated out.
SeedBlocksNoFinals(stateOrder, finalOrder) == PartitionNew(stateOrder)

\* the initial partition of the states: every accepting state marked, in the
\* HashSet's iteration order, then one split
SeedBlocks(stateOrder, finalOrder) ==
  Split(MarkAll(PartitionNew(stateOrder), finalOrder))

\* the transitions <<src, label, dst>> that by_label lists under `label`
LabelEdges(by_label, label) ==
  LET es == by_label[label] IN [n \in DOMAIN es |-> <<es[n][1], label, es[n][2]>>]

\* the initial partition of the transitions: for every label, in the
\* HashMap's iteration order, its transitions marked and one split
RECURSIVE SeedCords(_, _, _)
SeedCords(cords, by_label, labelOrder) ==
  IF labelOrder = <<>> THEN cords
  ELSE SeedCords(Split(MarkAll(cords, LabelEdges(by_label, Head(labelOrder)))),
                 by_label, Tail(labelOrder))

\* the sources of the transitions of a cord, in the cord's order
Sources(cord) == [n \in DOMAIN cord |-> cord[n][1]]

\* the transitions arriving at the states `dsts`, in the order the loops
\* over blocks.owned(b) and by_dst.get(&dst) visit them
RECURSIVE EdgesInto(_, _)
EdgesInto(dsts, by_dst) ==
  IF dsts = <<>> THEN <<>>
  ELSE LET dst == Head(dsts)
           edges == Get(by_dst, dst)
       IN  [n \in DOMAIN edges |-> <<edges[n][1], edges[n][2], dst>>] \o EdgesInto(Tail(dsts), by_dst)

\* the inner loop `while b < blocks.len()`; yields <<cords, b>>
RECURSIVE RefineCords(_, _, _, _)
RefineCords(blocks, cords, b, by_dst) ==
  IF cords.panic # "none" \/ ~(b < PLen(blocks)) THEN <<cords, b>>
  ELSE RefineCords(blocks, Split(MarkAll(cords, EdgesInto(Owned(blocks, b), by_dst))), b + 1, by_dst)

\* the outer loop `while c < cords.len()`; yields <<blocks, cords>>
RECURSIVE Refine(_, _, _, _, _)
Refine(blocks, cords, b, c, by_dst) ==
  IF blocks.panic # "none" \/ cords.panic # "none" \/ ~(c < PLen(cords)) THEN <<blocks, cords>>
  ELSE LET blocks1 == Split(MarkAll(blocks, Sources(Owned(cords, c))))
       IN  IF blocks1.panic # "none" THEN <<blocks1, cords>>
           ELSE LET inner == RefineCords(blocks1, cords, b, by_dst)
                IN  Refine(blocks1, inner[1], inner[2], c + 1, by_dst)

\* Mutant of BlockTuples: the destination is pushed as it is, not replaced by
\* the canonical state of its block.
BlockTuplesRawDst(blocks, by_src, i) ==
  LET src == Canonical(blocks, i)
      outgoing == Get(by_src, src)
  IN  [n \in DOMAIN outgoing |-> <<src, outgoing[n][1], outgoing[n][2]>>]

\* the quotient transitions pushed for block i
BlockTuples(blocks, by_src, i) ==
  LET src == Canonical(blocks, i)
      outgoing == Get(by_src, src)
  IN  [n \in DOMAIN outgoing |->
         <<src, outgoing[n][1], Canonical(blocks, Owner(blocks, outgoing[n][2]))>>]

\* `canonical_tuples` after the blocks i .. blocks.len() - 1 are visited
RECURSIVE CanonicalTuples(_, _, _)
CanonicalTuples(blocks, by_src, i) ==
  IF ~(i < PLen(blocks)) THEN <<>>
  ELSE BlockTuples(blocks, by_src, i) \o CanonicalTuples(blocks, by_src, i + 1)

\* Mutant of Quotient: the initial state is copied from the input, not
\* replaced by the canonical state of its block.
QuotientRawInitial(dfa, blocks, by_src) ==
  IF Len(blocks.elements) = 0 THEN Panic("out of bounds")
  ELSE IF dfa.initial_state \notin DOMAIN blocks.owners THEN Panic("no entry")
  ELSE Some(DFA(dfa.initial_state,
                {Canonical(blocks, Owner(blocks, q)) : q \in dfa.final_states},
                CanonicalTuples(blocks, by_src, 0)))

\* the DFA built from the final blocks
Quotient(dfa, blocks, by_src) ==
  IF Len(blocks.elements) = 0 THEN Panic("out of bounds")
  ELSE IF dfa.initial_state \notin DOMAIN blocks.owners THEN Panic("no entry")
  ELSE Some(DFA(Canonical(blocks, Owner(blocks, dfa.initial_state)),
                {Canonical(blocks, Owner(blocks, q)) : q \in dfa.final_states},
                CanonicalTuples(blocks, by_src, 0)))

\* minimize.  stateOrder: the order in which the HashSet of states is
\* collected into the blocks' elements; finalOrder: the order in which
\* final_states is iterated; labelOrder: the order in which by_label is.
Minimize(dfa, stateOrder, finalOrder, labelOrder) ==
  LET by_src == by_a(dfa.transitions)
      by_dst == by_c(dfa.transitions)
      by_label == by_b(dfa.transitions)
      blocks0 == SeedBlocks(stateOrder, finalOrder)
  IN  IF blocks0.panic # "none" THEN Panic(blocks0.panic)
      ELSE LET cords0 == SeedCords(PartitionNew(dfa.transitions), by_label, labelOrder)
           IN  IF cords0.panic # "none" THEN Panic(cords0.panic)
               ELSE LET refined == Refine(blocks0, cords0, 1, 0, by_dst)
                    IN  IF refined[1].panic # "none" THEN Panic(refined[1].panic)
                        ELSE IF refined[2].panic # "none" THEN Panic(refined[2].panic)
                        ELSE Quotient(dfa, refined[1], by_src)

\* every result minimize can return on dfa, over the iteration orders
MinimizeResults(dfa) ==
  {Minimize(dfa, so, fo, lo) : so \in Orders(Endpoints(dfa.transitions)),
                               fo \in Orders(dfa.final_states),
                               lo \in Orders(DOMAIN by_b(dfa.transitions))}

----------------------------------------------------------------------------
(* The host.  It constructs a DFA and then takes one of three paths:       *)
(* prune, minimize, minimize again; prune, prune again; or minimize the    *)
(* unpruned DFA directly.  Every call is a pure computation on the values  *)
(* already held, so the paths do not influence each other.                 *)

Transitions == States \X Labels \X States

\* the values of the variables a specification does not use
NoOp == [name |-> "none", fresh |-> TRUE]
PartIdle == part = PartitionNew(<<>>) /\ session = {} /\ op = NoOp
RunAt(pc, blocks, cords, b, c, result) ==
  [pc |-> pc, blocks |-> blocks, cords |-> cords, b |-> b, c |-> c, result |-> result]
RunIdle == run = RunAt("idle", PartitionNew(<<>>), PartitionNew(<<>>), 0, 0, Pending)

\* the precondition of the data model: at most one destination for a
\* (source, label); the same triple may occur more than once
Deterministic(transitions) ==
  \A i, j \in DOMAIN transitions :
     (transitions[i][1] = transitions[j][1] /\ transitions[i][2] = transitions[j][2])
        => transitions[i][3] = transitions[j][3]

InputDFAs ==
  {DFA(q0, F, ts) : q0 \in InitialStates, F \in SUBSET States,
                    ts \in {t \in SeqsUpTo(Transitions, MaxTrans) : Deterministic(t)}}

Init ==
  /\ input \in InputDFAs
  /\ pruned = Pending
  /\ minified = Pending
  /\ reminified = Pending
  /\ repruned = Pending
  /\ direct = Pending
  /\ PartIdle
  /\ RunIdle

\* input.prune_unreachable()
Prune ==
  /\ pruned.kind = "pending"
  /\ direct.kind = "pending"
  /\ \E fo \in Orders(input.final_states) : pruned' = PruneUnreachable(input, fo)
  /\ UNCHANGED <<input, minified, reminified, repruned, direct>>
  /\ UNCHANGED <<partVars, runVars>>

\* pruned.minimize()
MinimizePruned ==
  /\ pruned.kind = "ok"
  /\ minified.kind = "pending"
  /\ repruned.kind = "pending"
  /\ minified' \in MinimizeResults(pruned.dfa)
  /\ UNCHANGED <<input, pruned, reminified, repruned, direct>>
  /\ UNCHANGED <<partVars, runVars>>

\* minified.minimize()
MinimizeAgain ==
  /\ minified.kind = "ok"
  /\ reminified.kind = "pending"
  /\ reminified' \in MinimizeResults(minified.dfa)
  /\ UNCHANGED <<input, pruned, minified, repruned, direct>>
  /\ UNCHANGED <<partVars, runVars>>

\* pruned.prune_unreachable()
PruneAgain ==
  /\ pruned.kind = "ok"
  /\ repruned.kind = "pending"
  /\ minified.kind = "pending"
  /\ \E fo \in Orders(pruned.dfa.final_states) : repruned' = PruneUnreachable(pruned.dfa, fo)
  /\ UNCHANGED <<input, pruned, minified, reminified, direct>>
  /\ UNCHANGED <<partVars, runVars>>

\* input.minimize(), without pruning
MinimizeDirect ==
  /\ direct.kind = "pending"
  /\ pruned.kind = "pending"
  /\ direct' \in MinimizeResults(input)
  /\ UNCHANGED <<input, pruned, minified, reminified, repruned>>
  /\ UNCHANGED <<partVars, runVars>>

Next == Prune \/ MinimizePruned \/ MinimizeAgain \/ PruneAgain \/ MinimizeDirect

Spec == Init /\ [][Next]_vars

----------------------------------------------------------------------------
(* A Partition driven call by call (the calls of partition.rs's smoke_test, *)
(* in any number and order).  `session` is the set of elements marked       *)
(* since the last split; `op` is the last call: its name, and for a mark     *)
(* whether the element was outside `session` when it was marked.            *)

ElemNames == <<"a", "b", "c", "d", "e", "f">>

\* the universes: the first n names, in order
Universes == {SubSeq(ElemNames, 1, n) : n \in 0 .. MaxElems}

HostIdle ==
  /\ input = NoDFA
  /\ pruned = Pending
  /\ minified = Pending
  /\ reminified = Pending
  /\ repruned = Pending
  /\ direct = Pending

InitPartition ==
  /\ part \in {PartitionNew(u) : u \in Universes}
  /\ session = {}
  /\ op = NoOp
  /\ HostIdle
  /\ RunIdle

\* p.mark(e), for an element of the universe
MarkCall ==
  /\ part.panic = "none"
  /\ \E e \in Range(part.elements) :
       /\ part' = Mark(part, e)
       /\ session' = session \cup {e}
       /\ op' = [name |-> "mark", fresh |-> e \notin session]
  /\ UNCHANGED <<hostVars, runVars>>

\* p.split()
SplitCall ==
  /\ part.panic = "none"
  /\ part' = Split(part)
  /\ session' = {}
  /\ op' = [name |-> "split", fresh |-> TRUE]
  /\ UNCHANGED <<hostVars, runVars>>

NextPartition == MarkCall \/ SplitCall

SpecPartition == InitPartition /\ [][NextPartition]_vars

----------------------------------------------------------------------------
(* One run of minimize on `input`, a step per loop iteration.              *)

\* Mutant of StepBlocks: the marks and the split of the blocks are left out.
StepBlocksSkip(blocks, cords, c) == blocks

\* one iteration of `while c < cords.len()`, up to `c += 1`: the sources of
\* cord c marked, in the cord's order, and one split of the blocks
StepBlocks(blocks, cords, c) == Split(MarkAll(blocks, Sources(Owned(cords, c))))

\* one iteration of `while b < blocks.len()`: the transitions arriving at
\* block b marked, and one split of the cords
StepCords(blocks, cords, b, by_dst) ==
  Split(MarkAll(cords, EdgesInto(Owned(blocks, b), by_dst)))

\* the run r after a step that left the partitions as blocks and cords: over,
\* with the cursors where they were, if a mark panicked; else at position pc
\* with the cursors b and c
Continue(r, pc, blocks, cords, b, c) ==
  IF blocks.panic # "none" THEN RunAt("done", blocks, cords, r.b, r.c, Panic(blocks.panic))
  ELSE IF cords.panic # "none" THEN RunAt("done", blocks, cords, r.b, r.c, Panic(cords.panic))
  ELSE RunAt(pc, blocks, cords, b, c, Pending)

InitRefine ==
  /\ input \in InputDFAs
  /\ pruned = Pending
  /\ minified = Pending
  /\ reminified = Pending
  /\ repruned = Pending
  /\ direct = Pending
  /\ PartIdle
  /\ RunIdle

\* the two partitions built and seeded, `b = 1` and `c = 0`
Start ==
  /\ run.pc = "idle"
  /\ \E so \in Orders(Endpoints(input.transitions)),
        fo \in Orders(input.final_states),
        lo \in Orders(DOMAIN by_b(input.transitions)) :
       LET blocks0 == SeedBlocks(so, fo)
           cords0 == IF blocks0.panic # "none" THEN PartitionNew(<<>>)
                     ELSE SeedCords(PartitionNew(input.transitions), by_b(input.transitions), lo)
       IN  run' = Continue(run, "outer", blocks0, cords0, 1, 0)
  /\ UNCHANGED <<hostVars, partVars>>

\* `while c < cords.len()` entered: the blocks refined by cord c
OuterStep ==
  /\ run.pc = "outer"
  /\ run.c < PLen(run.cords)
  /\ run' = Continue(run, "inner", StepBlocks(run.blocks, run.cords, run.c), run.cords, run.b, run.c + 1)
  /\ UNCHANGED <<hostVars, partVars>>

\* `while b < blocks.len()` entered: the cords refined by block b
InnerStep ==
  /\ run.pc = "inner"
  /\ run.b < PLen(run.blocks)
  /\ run' = Continue(run, "inner", run.blocks,
                          StepCords(run.blocks, run.cords, run.b, by_c(input.transitions)),
                          run.b + 1, run.c)
  /\ UNCHANGED <<hostVars, partVars>>

\* `while b < blocks.len()` left
InnerExit ==
  /\ run.pc = "inner"
  /\ ~(run.b < PLen(run.blocks))
  /\ run' = [run EXCEPT !.pc = "outer"]
  /\ UNCHANGED <<hostVars, partVars>>

\* `while c < cords.len()` left: the quotient built and returned
Emit ==
  /\ run.pc = "outer"
  /\ ~(run.c < PLen(run.cords))
  /\ run' = [run EXCEPT !.pc = "done",
                        !.result = Quotient(input, run.blocks, by_a(input.transitions))]
  /\ UNCHANGED <<hostVars, partVars>>

NextRefine == Start \/ OuterStep \/ InnerStep \/ InnerExit \/ Emit

SpecRefine == InitRefine /\ [][NextRefine]_vars

----------------------------------------------------------------------------
(* Scenario 1 (tests prune_wikipedia and minimize_wikipedia).              *)

WikiTransitions ==
  << <<0, 0, 1>>, <<0, 1, 2>>, <<1, 0, 0>>, <<1, 1, 3>>, <<2, 0, 4>>, <<2, 1, 5>>,
     <<3, 0, 4>>, <<3, 1, 5>>, <<4, 0, 4>>, <<4, 1, 5>>, <<5, 0, 5>>, <<5, 1, 5>> >>

\* the sequence with the entries at positions i and j exchanged
Exchanged(ts, i, j) == [ts EXCEPT ![i] = ts[j], ![j] = ts[i]]

\* The scenario names a set of transitions and the tests build the table in
\* the order written: the inputs are that order (i = j) and every order that
\* exchanges two of its entries.
WikiInputs ==
  {DFA(0, {2, 3, 4}, Exchanged(WikiTransitions, i, j)) :
     i \in DOMAIN WikiTransitions, j \in DOMAIN WikiTransitions}

InitWiki ==
  /\ input \in WikiInputs
  /\ pruned = Pending
  /\ minified = Pending
  /\ reminified = Pending
  /\ repruned = Pending
  /\ direct = Pending
  /\ PartIdle
  /\ RunIdle

NextWiki == Prune \/ MinimizePruned

SpecWiki == InitWiki /\ [][NextWiki]_vars

----------------------------------------------------------------------------
(* Automata theory used to state the properties (not code of the program). *)

\* the states a DFA value mentions
StatesOf(dfa) == {dfa.initial_state} \cup dfa.final_states \cup Endpoints(dfa.transitions)

\* the states reached from a state of S by one transition labelled l
Post(dfa, S, l) == {t[3] : t \in {u \in Range(dfa.transitions) : u[1] \in S /\ u[2] = l}}

\* whether reading w from a state of S can end in an accepting state
RECURSIVE AcceptsFrom(_, _, _)
AcceptsFrom(dfa, S, w) ==
  IF w = <<>> THEN S \cap dfa.final_states # {}
  ELSE AcceptsFrom(dfa, Post(dfa, S, Head(w)), Tail(w))

Words == SeqsUpTo(Labels, MaxWord)

\* the words, up to the bound, accepted from state s, and by the automaton
Behaviour(dfa, s) == {w \in Words : AcceptsFrom(dfa, {s}, w)}
Language(dfa) == Behaviour(dfa, dfa.initial_state)

\* the states reachable from S in at most n steps along (forward = TRUE) or
\* against (forward = FALSE) the transitions
RECURSIVE Closure(_, _, _, _)
Closure(dfa, S, forward, n) ==
  IF n = 0 THEN S
  ELSE Closure(dfa,
               S \cup {IF forward THEN t[3] ELSE t[1] :
                         t \in {u \in Range(dfa.transitions) :
                                  IF forward THEN u[1] \in S ELSE u[3] \in S}},
               forward, n - 1)

\* live = reachable from the initial state and able to reach an accepting state
Live(dfa) ==
  LET n == Cardinality(StatesOf(dfa))
  IN  Closure(dfa, {dfa.initial_state}, TRUE, n) \cap Closure(dfa, dfa.final_states, FALSE, n)

\* the bijections from A onto B
Bijections(A, B) ==
  {f \in [A -> B] : /\ \A x, y \in A : (f[x] = f[y]) => (x = y)
                    /\ \A y \in B : \E x \in A : f[x] = y}

\* a renaming of the states maps a onto b
Isomorphic(a, b) ==
  \E f \in Bijections(StatesOf(a), StatesOf(b)) :
     /\ f[a.initial_state] = b.initial_state
     /\ {f[q] : q \in a.final_states} = b.final_states
     /\ {<<f[t[1]], t[2], f[t[3]]>> : t \in Range(a.transitions)} = Range(b.transitions)

----------------------------------------------------------------------------
(* The claims.                                                             *)

\* two positions of the sequence hold the same triple
HasDuplicate(ts) == \E i, j \in DOMAIN ts : i # j /\ ts[i] = ts[j]

\* C1 (as claimed): for every deterministic DFA D that prune_unreachable
\* turns into a DFA, minimize of the pruned DFA returns a DFA that accepts
\* exactly the words (up to MaxWord) D accepts.
C1_LanguagePreserved ==
  minified.kind # "pending" =>
    (minified.kind = "ok" /\ Language(minified.dfa) = Language(input))

\* C2: whenever minimize returns on a pruned DFA, no two distinct states of
\* the result are behaviourally equivalent, and the result has no more states
\* than the live part has classes of behaviourally equivalent states (the
\* state count of the smallest DFA for the language).
C2_Minimal ==
  minified.kind = "ok" =>
    /\ \A s, t \in StatesOf(minified.dfa) :
         (s # t) => Behaviour(minified.dfa, s) # Behaviour(minified.dfa, t)
    /\ Cardinality(StatesOf(minified.dfa))
         <= Cardinality({Behaviour(pruned.dfa, s) : s \in StatesOf(pruned.dfa)})

\* C2's case: minimize returned and merged at least two states.
C2_Witness ==
  /\ minified.kind = "ok"
  /\ Cardinality(StatesOf(minified.dfa)) < Cardinality(StatesOf(pruned.dfa))

\* C3: whenever prune_unreachable returns a DFA, it accepts exactly the words
\* (up to MaxWord) its input accepts.
C3_PrunePreservesLanguage ==
  pruned.kind = "ok" => Language(pruned.dfa) = Language(input)

\* C3's case: pruning removed a transition of a DFA that accepts a nonempty word.
C3_Witness ==
  /\ pruned.kind = "ok"
  /\ Len(pruned.dfa.transitions) < Len(input.transitions)
  /\ \E w \in Language(input) : w # <<>>

\* C4: prune_unreachable returns None exactly when no accepting state is
\* reachable from the initial state (the initial state counting as reachable
\* from itself), and a DFA otherwise.
C4_NoneIffEmpty ==
  pruned.kind # "pending" =>
    /\ pruned.kind \in {"none", "ok"}
    /\ (pruned.kind = "none") <=>
         (Closure(input, {input.initial_state}, TRUE, Cardinality(StatesOf(input)))
            \cap input.final_states = {})

\* C4's case: None for a DFA that has transitions and accepting states.
C4_Witness ==
  /\ pruned.kind = "none"
  /\ input.final_states # {}
  /\ input.transitions # <<>>

\* C5: the DFA prune_unreachable returns has the input's initial state, the
\* input's accepting states that are live, and exactly the input's
\* transitions, in their order, whose source and destination are live.
C5_PrunedShape ==
  pruned.kind = "ok" =>
    LET live == Live(input)
        BothLive(t) == t[1] \in live /\ t[3] \in live
    IN  /\ pruned.dfa.initial_state = input.initial_state
        /\ pruned.dfa.final_states = input.final_states \cap live
        /\ pruned.dfa.transitions = SelectSeq(input.transitions, BothLive)

\* C5's case: pruning removed an accepting state and a transition and kept one.
C5_Witness ==
  /\ pruned.kind = "ok"
  /\ pruned.dfa.final_states # input.final_states
  /\ pruned.dfa.transitions # input.transitions
  /\ pruned.dfa.transitions # <<>>

\* C6 (as claimed): minimize returns on every DFA prune_unreachable returns,
\* and the result's initial state is a state of the pruned DFA that behaves
\* as the pruned DFA's initial state does (the canonical state of its block).
C6_MinimizeTotalOnPruned ==
  minified.kind # "pending" =>
    /\ minified.kind = "ok"
    /\ minified.dfa.initial_state \in StatesOf(pruned.dfa)
    /\ Behaviour(pruned.dfa, minified.dfa.initial_state)
         = Behaviour(pruned.dfa, pruned.dfa.initial_state)

\* C7: for M returned by minimize on a pruned DFA, minimize returns on M, and
\* its result has as many states, accepting states and transitions as M and
\* is M up to a renaming of the states.
C7_Idempotent ==
  reminified.kind # "pending" =>
    /\ reminified.kind = "ok"
    /\ Cardinality(StatesOf(reminified.dfa)) = Cardinality(StatesOf(minified.dfa))
    /\ Cardinality(reminified.dfa.final_states) = Cardinality(minified.dfa.final_states)
    /\ Len(reminified.dfa.transitions) = Len(minified.dfa.transitions)
    /\ Isomorphic(minified.dfa, reminified.dfa)

\* C7's case: M has at least two states and came from merging states of the
\* pruned DFA, and minimize returned on M.
C7_Witness ==
  /\ reminified.kind = "ok"
  /\ Cardinality(StatesOf(minified.dfa)) < Cardinality(StatesOf(pruned.dfa))
  /\ Cardinality(StatesOf(minified.dfa)) >= 2

\* C8: pruning a pruned DFA returns a DFA, with the same initial state, the
\* same accepting states and the same transition sequence.
C8_PruneIdempotent ==
  repruned.kind # "pending" =>
    /\ repruned.kind = "ok"
    /\ repruned.dfa = pruned.dfa

\* C8's case: the first pruning removed something, the second ran.
C8_Witness ==
  /\ repruned.kind = "ok"
  /\ pruned.dfa # input
  /\ pruned.dfa.transitions # <<>>

\* C9 (as claimed): minimize called on a deterministic DFA that has
\* transitions, none of them twice, and still has unreachable or dead states
\* returns a DFA that accepts exactly the words (up to MaxWord) the input
\* accepts.
C9_UnprunedPreserved ==
  (/\ direct.kind # "pending"
   /\ input.transitions # <<>>
   /\ ~HasDuplicate(input.transitions)
   /\ StatesOf(input) # Live(input)) =>
    (direct.kind = "ok" /\ Language(direct.dfa) = Language(input))

\* C10 (as claimed): on scenario 1, minimizing the pruned DFA returns a DFA
\* with exactly 3 states, 3 transitions and 2 distinct sources.
C10_WikiThreeStates ==
  minified.kind # "pending" =>
    /\ minified.kind = "ok"
    /\ Cardinality(StatesOf(minified.dfa)) = 3
    /\ Len(minified.dfa.transitions) = 3
    /\ Cardinality(DOMAIN by_a(minified.dfa.transitions)) = 2

\* C10 (amended): on scenario 1, minimizing the pruned DFA returns a DFA with
\* exactly 2 states, 3 transitions and 2 distinct sources.
C10_WikiTwoStates ==
  minified.kind # "pending" =>
    /\ minified.kind = "ok"
    /\ Cardinality(StatesOf(minified.dfa)) = 2
    /\ Len(minified.dfa.transitions) = 3
    /\ Cardinality(DOMAIN by_a(minified.dfa.transitions)) = 2

\* C10's case: the table built in the order the tests write it, pruned to 7
\* transitions and minimized.
C10_Witness ==
  /\ input.transitions = WikiTransitions
  /\ Len(pruned.dfa.transitions) = 7
  /\ minified.kind = "ok"

----------------------------------------------------------------------------
(* Vocabulary of the claims about a Partition p.                           *)

SetIds(p) == 0 .. (PLen(p) - 1)

\* the positions of the backing sequence that set s spans
Positions(p, s) == At(p.spans, s).start .. (At(p.spans, s).end - 1)

\* the elements of set s
Members(p, s) == Range(Owned(p, s))

\* set s holds elements marked in the session `marks` and elements that are not
Divisible(p, s, marks) == Members(p, s) \cap marks # {} /\ Members(p, s) \ marks # {}

\* the sets that a split of p created, returning q
NewIds(p, q) == PLen(p) .. (PLen(q) - 1)

\* C12: as long as no call has panicked, the spans are well-formed ranges of
\* positions, pairwise disjoint, that together are exactly the positions
\* 0 .. |universe| - 1, and every element is in exactly one owned(set_id).
C12_SpansPartition ==
  part.panic = "none" =>
    /\ \A s \in SetIds(part) :
         At(part.spans, s).start <= At(part.spans, s).end
         /\ At(part.spans, s).end <= Len(part.elements)
    /\ \A s, t \in SetIds(part) : (s # t) => Positions(part, s) \cap Positions(part, t) = {}
    /\ UNION {Positions(part, s) : s \in SetIds(part)} = 0 .. (Len(part.elements) - 1)
    /\ \A e \in Range(part.elements) :
         Cardinality({s \in SetIds(part) : e \in Members(part, s)}) = 1

\* C12's case: three sets or more, in the middle of a session of marks.
C12_Witness ==
  /\ part.panic = "none"
  /\ PLen(part) >= 3
  /\ session # {}

\* C13: after a split (no call having panicked), every element e is at
\* position locations[e], that position lies in the span of owners[e], and
\* owner(e) = s exactly when e is in owned(s).
C13_IndexTablesAgree ==
  (op.name = "split" /\ part.panic = "none") =>
    \A e \in Range(part.elements) :
      /\ At(part.elements, part.locations[e]) = e
      /\ part.locations[e] \in Positions(part, part.owners[e])
      /\ \A s \in SetIds(part) : (part.owners[e] = s) <=> (e \in Members(part, s))

\* C13's case: a split returned, three sets exist, and marks have moved
\* elements away from their first positions.
C13_Witness ==
  /\ op.name = "split"
  /\ part.panic = "none"
  /\ PLen(part) >= 3
  /\ part.elements \notin Universes

\* C14: a mark fails, with 'already marked', exactly when its element was
\* marked before in the session (since the last split); otherwise it succeeds.
C14_MarkFailsIffMarked ==
  op.name = "mark" =>
    /\ part.panic \in {"none", "already marked"}
    /\ (part.panic = "already marked") <=> ~op.fresh

\* C14's case: a second mark of an element, after a split had divided a set.
C14_Witness ==
  /\ op.name = "mark"
  /\ part.panic = "already marked"
  /\ PLen(part) >= 2

\* what split does to p with the elements `marks` marked, returning q
SplitEffect(p, q, marks) ==
  /\ q.elements = p.elements
  /\ PLen(q) = PLen(p) + Cardinality({s \in SetIds(p) : Divisible(p, s, marks)})
  /\ \A s \in SetIds(p) :
       IF Divisible(p, s, marks)
       THEN \E t \in NewIds(p, q) :
              {Members(q, s), Members(q, t)} = {Members(p, s) \cap marks, Members(p, s) \ marks}
       ELSE At(q.spans, s) = At(p.spans, s) /\ Owned(q, s) = Owned(p, s)
  /\ \A s \in SetIds(q) : At(q.marked, s) = 0
  /\ q.touched = <<>>

\* C15: a split divides exactly the sets that hold both marked and unmarked
\* elements, each into its marked and its unmarked elements, one of the two
\* under one new id; every other set keeps its id, span and members; after
\* it every marked count is 0 and the touched list is empty.
C15_SplitFrame ==
  [][(op'.name = "split" /\ part'.panic = "none") => SplitEffect(part, part', session)]_vars

\* C15's case: a split returned and, of four elements, set 0 holds two and
\* two later sets one each: one split divided a set and left another alone.
C15_Witness ==
  /\ op.name = "split"
  /\ PLen(part) = 3
  /\ Cardinality(Members(part, 0)) = 2

\* the elements of p that a split returning q moved to a new set
Moved(p, q) == {e \in Range(p.elements) : q.owners[e] # p.owners[e]}

\* what the tie-break of split guarantees, for p split into q
SmallerHalfIsNew(p, q, marks) ==
  /\ \A t \in NewIds(p, q) :
       \E s \in SetIds(p) :
         /\ Members(q, t) \subseteq Members(p, s)
         /\ Cardinality(Members(q, t)) <= Cardinality(Members(q, s))
         /\ (Cardinality(Members(q, t)) = Cardinality(Members(q, s)))
              => (Members(q, t) \cap marks = {})
  /\ Moved(p, q) = UNION {Members(q, t) : t \in NewIds(p, q)}

\* partition.rs's smoke_test: a and c marked in {a, b, c, d}, then a split
SmokeTest(p, q) ==
  (p.elements = <<"a", "c", "b", "d">> /\ PLen(p) = 1 /\ p.marked = <<2>>) =>
    (Owned(q, 0) = <<"a", "c">> /\ Owned(q, 1) = <<"b", "d">>)

\* C16: in a split, a new set is never larger than the set it was divided
\* from, on equal halves the unmarked one is the new set, only the elements
\* of new sets change owner, and the smoke test's split gives [a, c], [b, d].
C16_SmallerHalfNew ==
  [][(op'.name = "split" /\ part'.panic = "none") =>
       (SmallerHalfIsNew(part, part', session) /\ SmokeTest(part, part'))]_vars

\* C16's case: the state the smoke test asserts on.
C16_Witness ==
  /\ op.name = "split"
  /\ PLen(part) = 2
  /\ Owned(part, 0) = <<"a", "c">>
  /\ Owned(part, 1) = <<"b", "d">>

\* C17 (as claimed): canonical(s) changes only in a split that divides s;
\* no mark changes it.
C17_CanonicalStable ==
  [][(part.panic = "none" /\ part'.panic = "none") =>
       \A s \in SetIds(part) :
          (Members(part, s) # {} /\ Canonical(part', s) # Canonical(part, s))
             => (op'.name = "split" /\ Divisible(part, s, session))]_vars

\* C17 (amended): canonical(s) is the element at the start of s's span, and
\* it changes only in a split that divides s and in the first mark of an
\* element of s since the last split, which makes the marked element
\* canonical; later marks and a split that does not divide s leave it.
C17_CanonicalChanges ==
  [][(part.panic = "none" /\ part'.panic = "none") =>
       \A s \in SetIds(part) :
          (Members(part, s) # {}) =>
             /\ Canonical(part, s) = Owned(part, s)[1]
             /\ (Canonical(part', s) # Canonical(part, s)) =>
                  \/ (op'.name = "split" /\ Divisible(part, s, session))
                  \/ /\ op'.name = "mark"
                     /\ Members(part, s) \cap session = {}
                     /\ Canonical(part', s) \in session']_vars

\* C17's case: marks alone (no set divided yet) changed canonical(0).
C17_Witness ==
  /\ op.name = "mark"
  /\ part.panic = "none"
  /\ PLen(part) = 1
  /\ Canonical(part, 0) # "a"

----------------------------------------------------------------------------
(* Vocabulary of the claims about a run of minimize.                       *)

\* prune_unreachable returns the DFA as it is
IsPruned(dfa) == \E fo \in Orders(dfa.final_states) : PruneUnreachable(dfa, fo) = Some(dfa)

\* the run is over and returned a DFA
Finished == run.pc = "done" /\ run.result.kind = "ok"

\* the run returns what minimize, computed in one piece, can return
RunAgreesWithMinimize == (run.pc = "done") => (run.result \in MinimizeResults(input))

\* C11: when minimize returns on a pruned deterministic DFA, two states of
\* the blocks' universe (the transition endpoints) have the same owner
\* exactly when they accept the same words (up to MaxWord).
C11_BlocksAreEquivalenceClasses ==
  (Finished /\ IsPruned(input)) =>
    \A s, t \in Endpoints(input.transitions) :
       (Owner(run.blocks, s) = Owner(run.blocks, t)) <=> (Behaviour(input, s) = Behaviour(input, t))

\* C11's case: a finished run on a pruned DFA in which the refinement loop
\* separated two states that are both not accepting.
C11_Witness ==
  /\ Finished
  /\ IsPruned(input)
  /\ \E s, t \in Endpoints(input.transitions) \ input.final_states :
        Owner(run.blocks, s) # Owner(run.blocks, t)

\* the run is inside the refinement loop
InLoop == run.pc \in {"outer", "inner"}

\* C18 (as claimed), the cursors: a run that has entered the refinement loop
\* leaves it with b at blocks.len() and c at cords.len().
C18_LoopCompletes ==
  [][(InLoop /\ run'.pc = "done") =>
       (run'.b = PLen(run'.blocks) /\ run'.c = PLen(run'.cords))]_vars

\* C18 (as claimed), the counts: inside the refinement loop blocks.len() and
\* cords.len() never exceed the sizes of their universes.
C18_CountsWithinUniverse ==
  InLoop =>
    /\ PLen(run.blocks) <= Len(run.blocks.elements)
    /\ PLen(run.cords) <= Len(run.cords.elements)

\* the larger of two numbers
Max(x, y) == IF x >= y THEN x ELSE y

\* the position of the run in the refinement loop, as a number that every
\* iteration of either loop, and leaving the inner loop, increases
LoopRank(r) == 2 * (r.b + r.c) + (IF r.pc = "outer" THEN 1 ELSE 0)

\* C18, what holds of the loop on every input: the set counts never exceed
\* the sizes of their universes, or 1 for an empty universe; the cursors
\* never exceed the counts; no step decreases a count; every step that stays
\* in the loop increases LoopRank, which the counts bound, so the loop is
\* left after finitely many steps; and it is left either with both cursors
\* at the counts or by the 'already marked' failure of a mark.
C18_LoopLeaves ==
  [][InLoop =>
       /\ PLen(run.blocks) <= Max(1, Len(run.blocks.elements))
       /\ PLen(run.cords) <= Max(1, Len(run.cords.elements))
       /\ run.b <= Max(1, PLen(run.blocks))
       /\ run.c <= PLen(run.cords)
       /\ PLen(run'.blocks) >= PLen(run.blocks)
       /\ PLen(run'.cords) >= PLen(run.cords)
       /\ IF run'.pc # "done" THEN LoopRank(run') > LoopRank(run)
          ELSE \/ run'.b = PLen(run'.blocks) /\ run'.c = PLen(run'.cords)
               \/ run'.blocks.panic = "already marked" /\ HasDuplicate(input.transitions)
               \/ run'.cords.panic = "already marked" /\ HasDuplicate(input.transitions)]_vars

\* C19 (as claimed): on a DFA with at most one destination for a (source,
\* label), no mark of minimize finds its element marked already: no run ends
\* in the 'already marked' failure.
C19_NoDoubleMark == run.result.why # "already marked"

\* C20: the DFA minimize returns on a pruned deterministic DFA has at most
\* one destination for a (source, label), no triple twice, and every source
\* and destination is the canonical state of one of the final blocks.
C20_QuotientShape ==
  (Finished /\ IsPruned(input)) =>
    LET ts == run.result.dfa.transitions
        reps == {Canonical(run.blocks, i) : i \in SetIds(run.blocks)}
    IN  /\ Deterministic(ts)
        /\ ~HasDuplicate(ts)
        /\ \A n \in DOMAIN ts : ts[n][1] \in reps /\ ts[n][3] \in reps

\* C20's case: a finished run on a pruned DFA with a block of two states that
\* both have outgoing transitions, of which the result keeps the canonical
\* state's.
C20_Witness ==
  /\ Finished
  /\ IsPruned(input)
  /\ run.result.dfa.transitions # <<>>
  /\ \E i \in SetIds(run.blocks) :
        /\ Cardinality(Members(run.blocks, i)) >= 2
        /\ Members(run.blocks, i) \subseteq DOMAIN by_a(input.transitions)

=============================================================================
